---- MODULE Spec2Model ----
(***************************************************************************)
(* Model of the TikTok market-research agent:                              *)
(*   src/src/tools/tiktok_scrape_tool.py   (input schema, scrape client,   *)
(*                                          capability wrapper, CLI)       *)
(*   src/src/workflows/tiktok_research.py  (two-task pipeline and runner)  *)
(* Strings that are normalised are sequences of one-character strings.     *)
(***************************************************************************)
EXTENDS Integers, Sequences, FiniteSets, TLC

\* ---------------------------------------------------------------- bounds
MaxLen == 3        \* longest comma-separated hashtag string fed to a path
MaxList == 2       \* longest hashtag list fed to a path
MaxElemLen == 1    \* longest element of such a list
MaxItems == 2      \* most items a backend dataset yields
MaxArtifacts == 2  \* most entries of crew.artifacts
MaxToolCalls == 1  \* most tool invocations the agent makes in one run

\* ------------------------------------------------------ program constants
RPP_MIN == 1
RPP_MAX == 50
RPP_DEFAULT == 10

\* ------------------------------------------------------------ input sets
Alphabet == {"#", " ", "a", "B", ","}
Items == {"i1", "i2"}
RppInputs == {0, RPP_MIN, RPP_MAX, RPP_MAX + 1}

RECURSIVE SeqsUpTo(_, _)
SeqsUpTo(S, n) ==
  IF n = 0 THEN {<<>>}
  ELSE LET shorter == SeqsUpTo(S, n - 1)
       IN shorter \cup {Append(s, x) : s \in {t \in shorter : Len(t) = n - 1}, x \in S}

StrValue(s) == [t |-> "str", s |-> s, l |-> <<>>]
ListValue(l) == [t |-> "list", s |-> <<>>, l |-> l]
OtherValue == [t |-> "other", s |-> <<>>, l |-> <<>>]

StrInputs == {StrValue(s) : s \in SeqsUpTo(Alphabet, MaxLen)}
ListInputs == {ListValue(l) : l \in SeqsUpTo(SeqsUpTo(Alphabet, MaxElemLen), MaxList)}

\* ------------------------------------------------ Python string methods
IsSpace(c) == c = " "

RECURSIVE LStripSpace(_)
LStripSpace(s) ==
  IF s = <<>> THEN s
  ELSE IF IsSpace(Head(s)) THEN LStripSpace(Tail(s)) ELSE s

RECURSIVE RStripSpace(_)
RStripSpace(s) ==
  IF s = <<>> THEN s
  ELSE IF IsSpace(s[Len(s)]) THEN RStripSpace(SubSeq(s, 1, Len(s) - 1)) ELSE s

\* str.strip()
Strip(s) == RStripSpace(LStripSpace(s))

\* str.lstrip("#")
RECURSIVE LStripHash(_)
LStripHash(s) ==
  IF s = <<>> THEN s
  ELSE IF Head(s) = "#" THEN LStripHash(Tail(s)) ELSE s

\* str.split(",")
RECURSIVE SplitComma(_)
SplitComma(s) ==
  IF \A i \in 1..Len(s) : s[i] # ","
  THEN <<s>>
  ELSE LET k == CHOOSE i \in 1..Len(s) : s[i] = "," /\ \A j \in 1..(i - 1) : s[j] # ","
       IN <<SubSeq(s, 1, k - 1)>> \o SplitComma(SubSeq(s, k + 1, Len(s)))

\* [h.strip() for h in v.split(",") if h.strip()]
RECURSIVE StripNonBlank(_)
StripNonBlank(l) ==
  IF l = <<>> THEN <<>>
  ELSE IF Strip(Head(l)) # <<>>
       THEN <<Strip(Head(l))>> \o StripNonBlank(Tail(l))
       ELSE StripNonBlank(Tail(l))

\* [str(h).strip().lstrip("#") for h in v if str(h).strip()]
RECURSIVE StripHashNonBlank(_)
StripHashNonBlank(l) ==
  IF l = <<>> THEN <<>>
  ELSE IF Strip(Head(l)) # <<>>
       THEN <<LStripHash(Strip(Head(l)))>> \o StripHashNonBlank(Tail(l))
       ELSE StripHashNonBlank(Tail(l))

\* TikTokHashtagScrapeInput.normalize_hashtags: the value it returns
normalize_hashtags(v) ==
  LET asList == IF v.t = "str" THEN StripNonBlank(SplitComma(v.s)) ELSE v.l
  IN StripHashNonBlank(asList)

\* normalize_hashtags raises ValueError for anything but a str or a list
normalize_raises(v) == v.t \notin {"str", "list"}

\* results_per_page: int = Field(10, ge=1, le=50)
rpp_field_ok(n) == n >= RPP_MIN /\ n <= RPP_MAX

\* __main__: hashtags = [h.strip().lstrip("#") for h in args.hashtags.split(",") if h.strip()]
cli_hashtags(s) == StripHashNonBlank(SplitComma(s))

\* run_input with video download switched on
run_input_videos(tags, rpp) ==
  [ hashtags |-> tags,
    resultsPerPage |-> rpp,
    profileScrapeSections |-> <<"videos">>,
    profileSorting |-> "latest",
    excludePinnedPosts |-> FALSE,
    searchSection |-> "",
    maxProfilesPerQuery |-> 10,
    scrapeRelatedVideos |-> FALSE,
    shouldDownloadVideos |-> TRUE,
    shouldDownloadCovers |-> FALSE,
    shouldDownloadSubtitles |-> TRUE,
    shouldDownloadSlideshowImages |-> FALSE,
    shouldDownloadAvatars |-> FALSE,
    shouldDownloadMusicCovers |-> FALSE,
    proxyCountryCode |-> "None" ]

\* the Actor input built by tiktok_scrape_tool
run_input(tags, rpp) ==
  [ hashtags |-> tags,
    resultsPerPage |-> rpp,
    profileScrapeSections |-> <<"videos">>,
    profileSorting |-> "latest",
    excludePinnedPosts |-> FALSE,
    searchSection |-> "",
    maxProfilesPerQuery |-> 10,
    scrapeRelatedVideos |-> FALSE,
    shouldDownloadVideos |-> FALSE,
    shouldDownloadCovers |-> FALSE,
    shouldDownloadSubtitles |-> TRUE,
    shouldDownloadSlideshowImages |-> FALSE,
    shouldDownloadAvatars |-> FALSE,
    shouldDownloadMusicCovers |-> FALSE,
    proxyCountryCode |-> "None" ]

\* ------------------------------------------------------- Python values
\* A value json.loads can return; every field is always present so that any
\* two values can be compared.  kv: the items of a dict as <<key, value>>
\* pairs, a value being named by its JSON text.
PyNone == [t |-> "none", kv |-> {}, elems |-> <<>>, s |-> "", n |-> 0]
PyBool(b) == [t |-> "bool", kv |-> {}, elems |-> <<>>, s |-> "", n |-> IF b THEN 1 ELSE 0]
PyInt(n) == [t |-> "int", kv |-> {}, elems |-> <<>>, s |-> "", n |-> n]
PyStr(s) == [t |-> "str", kv |-> {}, elems |-> <<>>, s |-> s, n |-> 0]
PyList(l) == [t |-> "list", kv |-> {}, elems |-> l, s |-> "", n |-> 0]
PyDict(kv) == [t |-> "dict", kv |-> kv, elems |-> <<>>, s |-> "", n |-> 0]

\* bool(v)
Truthy(v) ==
  CASE v.t = "none" -> FALSE
    [] v.t \in {"bool", "int"} -> v.n # 0
    [] v.t = "str" -> v.s # ""
    [] v.t = "list" -> v.elems # <<>>
    [] v.t = "dict" -> v.kv # {}

Keys(kv) == {p[1] : p \in kv}
Get(kv, k) == (CHOOSE p \in kv : p[1] = k)[2]

\* `key in v` raises TypeError when v is not a container
InRaises(v) == v.t \in {"none", "bool", "int"}

\* key in a str: substring test, over the affixes the modelled texts use
Affixes == {"", "no ", "#"}
SubstringOf(key, s) == \E p \in Affixes, q \in Affixes : p \o key \o q = s

\* `key in v` for a container v
In(key, v) ==
  CASE v.t = "dict" -> key \in Keys(v.kv)
    [] v.t = "list" -> \E i \in 1..Len(v.elems) : v.elems[i] = key
    [] v.t = "str" -> SubstringOf(key, v.s)
    [] OTHER -> FALSE

\* dict.update(v) for a truthy v: a dict merges; a non-empty str raises
\* ValueError (its elements have length 1), and so does a list whose
\* elements are not pairs (no modelled list element has length 2)
UpdateRaises(v) == v.t \in {"str", "list"}
DictUpdate(kv, v) == {p \in kv : p[1] \notin Keys(v.kv)} \cup v.kv

\* v["hashtags"] raises TypeError unless v is a dict
SubscriptRaises(v) == v.t # "dict"

\* ------------------------------------------------------------ json.loads
BadText == "Here is the JSON you asked for"
TxtEmptyObj == "{}"
TxtNull == "null"
TxtFive == "5"
TxtTrue == "true"
TxtEmptyList == "[]"
TxtListResults == "[\"results\"]"
TxtListHashtags == "[\"hashtags\"]"
TxtStrResults == "\"no results\""
TxtStrHashtags == "\"#hashtags\""
TxtResults == "{\"results\": {}}"
TxtHashtags1 == "{\"hashtags\": [\"h1\"]}"
TxtHashtags2 == "{\"hashtags\": [\"h2\"]}"
TxtBoth == "{\"results\": {}, \"hashtags\": [\"h0\"]}"
TxtOther == "{\"summary\": 1}"

JsonTexts ==
  { TxtEmptyObj, TxtNull, TxtFive, TxtTrue, TxtEmptyList, TxtListResults,
    TxtListHashtags, TxtStrResults, TxtStrHashtags, TxtResults, TxtHashtags1,
    TxtHashtags2, TxtBoth, TxtOther }

\* json.loads(text) for a text that is valid JSON
json_loads(text) ==
  CASE text = TxtEmptyObj -> PyDict({})
    [] text = TxtNull -> PyNone
    [] text = TxtFive -> PyInt(5)
    [] text = TxtTrue -> PyBool(TRUE)
    [] text = TxtEmptyList -> PyList(<<>>)
    [] text = TxtListResults -> PyList(<<"results">>)
    [] text = TxtListHashtags -> PyList(<<"hashtags">>)
    [] text = TxtStrResults -> PyStr("no results")
    [] text = TxtStrHashtags -> PyStr("#hashtags")
    [] text = TxtResults -> PyDict({<<"results", "{}">>})
    [] text = TxtHashtags1 -> PyDict({<<"hashtags", "[\"h1\"]">>})
    [] text = TxtHashtags2 -> PyDict({<<"hashtags", "[\"h2\"]">>})
    [] text = TxtBoth -> PyDict({<<"results", "{}">>, <<"hashtags", "[\"h0\"]">>})
    [] text = TxtOther -> PyDict({<<"summary", "1">>})

\* _safe_json_loads: json.loads, or None when it raises
_safe_json_loads(text) == IF text \in JsonTexts THEN json_loads(text) ELSE PyNone

\* ------------------------------------------------------------------ state
VARIABLES
  entry,            \* how the run was started: wrapper, direct, cli, pipeline
  pc,               \* position in the code
  env_token,        \* os.getenv("APIFY_API_TOKEN") is set
  arg_token,        \* --apify-token was given (cli)
  in_hashtags,      \* the hashtags value handed to the entry point
  in_rpp,           \* the results_per_page value handed to the entry point
  write_to_file,    \* tiktok_scrape_tool's write_to_file argument
  hashtags,         \* tiktok_scrape_tool's hashtags argument
  results_per_page, \* tiktok_scrape_tool's results_per_page argument
  client,           \* ApifyClient(token) has been constructed
  actor_calls,      \* the run_input of every actor call the scrape client has issued
  dataset,          \* the items the run's dataset yields, in order
  res,              \* tiktok_scrape_tool's res
  file_written,     \* result.json was written
  tool_outcome,     \* none, returned, raised (RuntimeError), failed (backend)
  outcome,          \* how the entry point ended
  cred_reported,    \* the missing credential has been reported
  llm_calls,        \* language-model calls made by the crew
  tool_calls,       \* tool invocations made by the agent
  raw,              \* crew.kickoff()'s return value
  artifacts,        \* crew.artifacts
  parsed,           \* run_search_query_agent's parsed
  output,           \* run_search_query_agent's output (items of the dict)
  idx,              \* position of the loop over artifacts.values()
  result            \* the value run_search_query_agent returns

vars ==
  << entry, pc, env_token, arg_token, in_hashtags, in_rpp, write_to_file,
     hashtags, results_per_page, client, actor_calls, dataset, res,
     file_written, tool_outcome, outcome, cred_reported, llm_calls,
     tool_calls, raw, artifacts, parsed, output, idx, result >>

toolVars == << write_to_file, hashtags, results_per_page, client, dataset, res, tool_outcome >>
runnerVars == << raw, artifacts, parsed, output, idx, result >>
crewVars == << llm_calls, tool_calls >>
inputVars == << entry, in_hashtags, in_rpp, arg_token >>

\* kickoff()'s return value: a str, a dict, or some other object
RawStr(text) == [t |-> "str", text |-> text, kv |-> {}]
RawDict(kv) == [t |-> "dict", text |-> "", kv |-> kv]
RawOther == [t |-> "other", text |-> "", kv |-> {}]
RawValues ==
  {RawStr(x) : x \in JsonTexts \cup {BadText}}
    \cup {RawDict({}), RawDict({<<"results", "{}">>}), RawDict({<<"hashtags", "[\"h3\"]">>})}
    \cup {RawOther}

\* crew.artifacts: the attribute is missing, is not a dict, or is a dict whose
\* values (in iteration order) are strs or other objects
ArtStr(text) == [isstr |-> TRUE, text |-> text]
ArtOther == [isstr |-> FALSE, text |-> ""]
ArtifactValues ==
  {ArtStr(x) : x \in {BadText, TxtFive, TxtListHashtags, TxtStrHashtags, TxtHashtags1,
                      TxtHashtags2, TxtOther}} \cup {ArtOther}
NoArtifacts == [t |-> "missing", vals |-> <<>>]
ArtifactChoices ==
  {NoArtifacts, [t |-> "nondict", vals |-> <<>>]}
    \cup {[t |-> "dict", vals |-> v] : v \in SeqsUpTo(ArtifactValues, MaxArtifacts)}

\* the arguments the agent may pass to the tool
AgentToolArgs ==
  { <<ListValue(<< <<"a">> >>), RPP_DEFAULT>>, <<StrValue(<<"#", "a">>), 0>> }

InitCommon ==
  /\ pc = "start"
  /\ env_token \in BOOLEAN
  /\ write_to_file = FALSE
  /\ hashtags = <<>>
  /\ results_per_page = RPP_DEFAULT
  /\ client = FALSE
  /\ actor_calls = <<>>
  /\ dataset = <<>>
  /\ res = [data |-> <<>>]
  /\ file_written = FALSE
  /\ tool_outcome = "none"
  /\ outcome = "none"
  /\ cred_reported = FALSE
  /\ llm_calls = 0
  /\ tool_calls = 0
  /\ raw = RawOther
  /\ artifacts = NoArtifacts
  /\ parsed = PyNone
  /\ output = {}
  /\ idx = 0
  /\ result = PyNone

Init ==
  /\ InitCommon
  /\ \/ /\ entry = "wrapper"
        /\ in_hashtags \in StrInputs \cup ListInputs \cup {OtherValue}
        /\ in_rpp \in RppInputs
        /\ arg_token = FALSE
     \/ /\ entry = "direct"
        /\ in_hashtags \in ListInputs
        /\ in_rpp \in RppInputs
        /\ arg_token = FALSE
     \/ /\ entry = "cli"
        /\ in_hashtags \in StrInputs
        /\ in_rpp \in RppInputs
        /\ arg_token \in BOOLEAN
     \/ /\ entry = "pipeline"
        /\ in_hashtags = OtherValue
        /\ in_rpp = RPP_DEFAULT
        /\ arg_token = FALSE

\* ------------------------------------------- tiktok_scrape_tool.py: entries
\* args_schema validation of the tool input, then TikTokHashtagScrapeTool._run
ToolRun ==
  /\ \/ entry = "wrapper" /\ pc = "start"
     \/ entry = "pipeline" /\ pc = "tool_args"
  /\ IF normalize_raises(in_hashtags) \/ ~rpp_field_ok(in_rpp)
     THEN /\ pc' = IF entry = "pipeline" THEN "scrape_task" ELSE "done"
          /\ outcome' = IF entry = "pipeline" THEN outcome ELSE "rejected"
          /\ UNCHANGED << hashtags, results_per_page >>
     ELSE /\ pc' = "tool_token"
          /\ hashtags' = normalize_hashtags(in_hashtags)
          /\ results_per_page' = in_rpp
          /\ UNCHANGED outcome
  /\ write_to_file' = FALSE
  /\ UNCHANGED << inputVars, env_token, client, actor_calls, dataset, res, file_written,
                  tool_outcome, cred_reported, crewVars, runnerVars >>

\* a direct call tiktok_scrape_tool(hashtags, results_per_page=..., write_to_file=...)
DirectCall ==
  /\ entry = "direct" /\ pc = "start"
  /\ hashtags' = in_hashtags.l
  /\ results_per_page' = in_rpp
  /\ write_to_file' \in BOOLEAN
  /\ pc' = "tool_token"
  /\ UNCHANGED << inputVars, env_token, client, actor_calls, dataset, res, file_written,
                  tool_outcome, outcome, cred_reported, crewVars, runnerVars >>

\* __main__ up to the call of tiktok_scrape_tool
CliMain ==
  /\ entry = "cli" /\ pc = "start"
  /\ env_token' = (env_token \/ arg_token)
  /\ IF ~env_token'
     THEN /\ cred_reported' = TRUE
          /\ outcome' = "exit1"
          /\ pc' = "done"
          /\ UNCHANGED << hashtags, results_per_page, write_to_file >>
     ELSE /\ UNCHANGED cred_reported
          /\ IF cli_hashtags(in_hashtags.s) = <<>>
             THEN /\ outcome' = "exit1"
                  /\ pc' = "done"
                  /\ UNCHANGED << hashtags, results_per_page, write_to_file >>
             ELSE /\ hashtags' = cli_hashtags(in_hashtags.s)
                  /\ results_per_page' = in_rpp
                  /\ write_to_file' = TRUE
                  /\ pc' = "tool_token"
                  /\ UNCHANGED outcome
  /\ UNCHANGED << inputVars, client, actor_calls, dataset, res, file_written,
                  tool_outcome, crewVars, runnerVars >>

\* ------------------------------------ tiktok_scrape_tool.py: the scrape client
\* token = os.getenv(...); if not token: raise RuntimeError
CheckToken ==
  /\ pc = "tool_token"
  /\ IF ~env_token
     THEN /\ tool_outcome' = "raised"
          /\ cred_reported' = TRUE
          /\ pc' = "tool_exit"
     ELSE /\ pc' = "tool_client"
          /\ UNCHANGED << tool_outcome, cred_reported >>
  /\ UNCHANGED << inputVars, env_token, write_to_file, hashtags, results_per_page, client,
                  actor_calls, dataset, res, file_written, outcome, crewVars, runnerVars >>

\* client = ApifyClient(token)
CreateClient ==
  /\ pc = "tool_client"
  /\ client' = TRUE
  /\ pc' = "tool_call"
  /\ UNCHANGED << inputVars, env_token, write_to_file, hashtags, results_per_page,
                  actor_calls, dataset, res, file_written, tool_outcome, outcome,
                  cred_reported, crewVars, runnerVars >>

\* run = client.actor(...).call(run_input=run_input); res = {"data": []}
\* The backend either fails (the error propagates) or completes a run whose
\* dataset yields some items.
CallActor ==
  /\ pc = "tool_call"
  /\ actor_calls' = Append(actor_calls, run_input(hashtags, results_per_page))
  /\ \/ /\ tool_outcome' = "failed"
        /\ pc' = "tool_exit"
        /\ UNCHANGED << dataset, res >>
     \/ /\ dataset' \in SeqsUpTo(Items, MaxItems)
        /\ res' = [data |-> <<>>]
        /\ pc' = "tool_iter"
        /\ UNCHANGED tool_outcome
  /\ UNCHANGED << inputVars, env_token, write_to_file, hashtags, results_per_page, client,
                  file_written, outcome, cred_reported, crewVars, runnerVars >>

\* insertion at the front instead of the back
AppendItem_front(data, item) == <<item>> \o data

\* res["data"].append(item)
AppendItem(data, item) == Append(data, item)

\* one pass of: for item in ...iterate_items(): res["data"].append(item)
IterateItem ==
  /\ pc = "tool_iter"
  /\ Len(res.data) < Len(dataset)
  /\ res' = [res EXCEPT !.data = AppendItem(@, dataset[Len(@) + 1])]
  /\ UNCHANGED << inputVars, pc, env_token, write_to_file, hashtags, results_per_page,
                  client, actor_calls, dataset, file_written, tool_outcome, outcome,
                  cred_reported, crewVars, runnerVars >>

\* the iterator is exhausted: optional result.json, then return res
ToolReturn ==
  /\ pc = "tool_iter"
  /\ Len(res.data) = Len(dataset)
  /\ file_written' = (file_written \/ write_to_file)
  /\ tool_outcome' = "returned"
  /\ pc' = "tool_exit"
  /\ UNCHANGED << inputVars, env_token, write_to_file, hashtags, results_per_page, client,
                  actor_calls, dataset, res, outcome, cred_reported, crewVars, runnerVars >>

\* the caller of tiktok_scrape_tool gets its result or its exception:
\* _run returns the result unchanged, __main__ prints it or exits with 1
CallerDone ==
  /\ pc = "tool_exit"
  /\ entry \in {"wrapper", "direct", "cli"}
  /\ outcome' = IF tool_outcome = "returned"
                THEN (IF entry = "cli" THEN "exit0" ELSE "returned")
                ELSE (IF entry = "cli" THEN "exit1" ELSE "raised")
  /\ pc' = "done"
  /\ UNCHANGED << inputVars, env_token, toolVars, actor_calls, file_written,
                  cred_reported, crewVars, runnerVars >>

\* --------------------------------------- tiktok_research.py: the pipeline
\* create_search_query_crew: builds tool, llm, agent and tasks; the only
\* credential it looks at is OPENAI_API_KEY, and it calls nothing
create_search_query_crew ==
  /\ entry = "pipeline" /\ pc = "start"
  /\ pc' = "hashtag_task"
  /\ UNCHANGED << inputVars, env_token, toolVars, actor_calls, file_written, outcome,
                  cred_reported, crewVars, runnerVars >>

\* crew.kickoff(), first task: the agent asks the model for hashtags
HashtagTask ==
  /\ pc = "hashtag_task"
  /\ llm_calls' = llm_calls + 1
  /\ pc' = "scrape_task"
  /\ UNCHANGED << inputVars, env_token, toolVars, actor_calls, file_written, outcome,
                  cred_reported, tool_calls, runnerVars >>

\* second task: the model answers with a call of tiktok_hashtag_scrape
ScrapeTaskInvoke ==
  /\ pc = "scrape_task"
  /\ tool_calls < MaxToolCalls
  /\ llm_calls' = llm_calls + 1
  /\ tool_calls' = tool_calls + 1
  /\ \E a \in AgentToolArgs : in_hashtags' = a[1] /\ in_rpp' = a[2]
  /\ pc' = "tool_args"
  /\ UNCHANGED << entry, arg_token, env_token, toolVars, actor_calls, file_written,
                  outcome, cred_reported, runnerVars >>

\* the tool's result or exception goes back to the agent framework, which
\* hands it to the model or lets the exception end kickoff()
ToolBack ==
  /\ pc = "tool_exit"
  /\ entry = "pipeline"
  /\ \/ /\ pc' = "scrape_task"
        /\ UNCHANGED outcome
     \/ /\ tool_outcome # "returned"
        /\ pc' = "done"
        /\ outcome' = "kickoff_raised"
  /\ in_hashtags' = OtherValue
  /\ in_rpp' = RPP_DEFAULT
  /\ hashtags' = <<>>
  /\ results_per_page' = RPP_DEFAULT
  /\ client' = FALSE
  /\ dataset' = <<>>
  /\ res' = [data |-> <<>>]
  /\ actor_calls' = <<>>
  /\ tool_outcome' = "none"
  /\ UNCHANGED << entry, arg_token, env_token, write_to_file, file_written,
                  cred_reported, crewVars, runnerVars >>

\* second task: the model gives its final answer and kickoff() returns
ScrapeTaskAnswer ==
  /\ pc = "scrape_task"
  /\ llm_calls' = llm_calls + 1
  /\ raw' \in RawValues
  /\ artifacts' \in ArtifactChoices
  /\ pc' = "runner_parse"
  /\ UNCHANGED << inputVars, env_token, toolVars, actor_calls, file_written, outcome,
                  cred_reported, tool_calls, parsed, output, idx, result >>

\* ------------------------------ tiktok_research.py: run_search_query_agent
\* parsed as computed from raw
ParsedOf(r) ==
  IF r.t = "str" THEN _safe_json_loads(r.text)
  ELSE IF r.t = "dict" THEN PyDict(r.kv)
  ELSE PyNone

\* `not parsed or "results" not in parsed` raises TypeError
FallbackTestRaises(p) == Truthy(p) /\ InRaises(p)
\* the test with 'hashtags' in place of 'results'
FallbackTest_hashtags(p) == ~Truthy(p) \/ ~In("hashtags", p)
\* its value otherwise
FallbackTest(p) == ~Truthy(p) \/ ~In("results", p)

\* from `parsed = None` to the start of the loop over the artifacts
RunnerParse ==
  /\ pc = "runner_parse"
  /\ LET p == ParsedOf(raw)
     IN /\ parsed' = p
        /\ IF FallbackTestRaises(p)
           THEN /\ outcome' = "raised"
                /\ pc' = "done"
                /\ UNCHANGED << output, idx, result >>
           ELSE IF ~FallbackTest(p)
           THEN /\ result' = p
                /\ outcome' = "returned"
                /\ pc' = "done"
                /\ UNCHANGED << output, idx >>
           ELSE IF Truthy(p) /\ UpdateRaises(p)
           THEN /\ outcome' = "raised"
                /\ pc' = "done"
                /\ UNCHANGED << output, idx, result >>
           ELSE /\ output' = IF Truthy(p) THEN DictUpdate({}, p) ELSE {}
                /\ idx' = 1
                /\ pc' = "runner_scan"
                /\ UNCHANGED << outcome, result >>
  /\ UNCHANGED << inputVars, env_token, toolVars, actor_calls, file_written,
                  cred_reported, crewVars, raw, artifacts >>

\* `if artifacts and isinstance(artifacts, dict)`
ArtifactsScanned == artifacts.t = "dict" /\ artifacts.vals # <<>>

\* one pass of the loop over artifacts.values()
ScanArtifact ==
  /\ pc = "runner_scan"
  /\ ArtifactsScanned
  /\ idx <= Len(artifacts.vals)
  /\ LET v == artifacts.vals[idx]
         maybe == _safe_json_loads(v.text)
     IN IF ~v.isstr \/ ~Truthy(maybe)
        THEN /\ idx' = idx + 1
             /\ UNCHANGED << pc, output, outcome >>
        ELSE IF InRaises(maybe)
        THEN /\ outcome' = "raised"
             /\ pc' = "done"
             /\ UNCHANGED << output, idx >>
        ELSE IF ~In("hashtags", maybe) \/ "hashtags" \in Keys(output)
        THEN /\ idx' = idx + 1
             /\ UNCHANGED << pc, output, outcome >>
        ELSE IF SubscriptRaises(maybe)
        THEN /\ outcome' = "raised"
             /\ pc' = "done"
             /\ UNCHANGED << output, idx >>
        ELSE /\ output' = output \cup {<<"hashtags", Get(maybe.kv, "hashtags")>>}
             /\ idx' = idx + 1
             /\ UNCHANGED << pc, outcome >>
  /\ UNCHANGED << inputVars, env_token, toolVars, actor_calls, file_written,
                  cred_reported, crewVars, raw, artifacts, parsed, result >>

ErrorObject == {<<"error", "\"Could not parse crew output\"">>}

\* return output or {"error": "Could not parse crew output"}
RunnerReturn ==
  /\ pc = "runner_scan"
  /\ ~ArtifactsScanned \/ idx > Len(artifacts.vals)
  /\ result' = PyDict(IF output # {} THEN output ELSE ErrorObject)
  /\ outcome' = "returned"
  /\ pc' = "done"
  /\ UNCHANGED << inputVars, env_token, toolVars, actor_calls, file_written,
                  cred_reported, crewVars, raw, artifacts, parsed, output, idx >>

Next ==
  \/ ToolRun
  \/ DirectCall
  \/ CliMain
  \/ CheckToken
  \/ CreateClient
  \/ CallActor
  \/ IterateItem
  \/ ToolReturn
  \/ CallerDone
  \/ create_search_query_crew
  \/ HashtagTask
  \/ ScrapeTaskInvoke
  \/ ToolBack
  \/ ScrapeTaskAnswer
  \/ RunnerParse
  \/ ScanArtifact
  \/ RunnerReturn

Spec == Init /\ [][Next]_vars

TypeOK ==
  /\ entry \in {"wrapper", "direct", "cli", "pipeline"}
  /\ outcome \in {"none", "rejected", "returned", "raised", "kickoff_raised", "exit0", "exit1"}
  /\ tool_outcome \in {"none", "returned", "raised", "failed"}

\* ================================================================= claims
KickoffReturned == entry = "pipeline" /\ pc = "done" /\ outcome # "kickoff_raised"
RawUnparsable == raw.t = "str" /\ raw.text \notin JsonTexts
ParsesWithKey(text, key) ==
  /\ text \in JsonTexts
  /\ json_loads(text).t = "dict"
  /\ key \in Keys(json_loads(text).kv)
ArtifactHasHashtags(i) ==
  /\ artifacts.t = "dict"
  /\ i \in 1..Len(artifacts.vals)
  /\ artifacts.vals[i].isstr
  /\ ParsesWithKey(artifacts.vals[i].text, "hashtags")

\* C1: no actor call is ever issued with resultsPerPage outside [1,50], on
\* any path (wrapper schema, direct call, standalone CLI).
C1_NoOutOfRangeActorCall ==
  \A i \in 1..Len(actor_calls) :
    actor_calls[i].resultsPerPage >= 1 /\ actor_calls[i].resultsPerPage <= 50

\* C2: while APIFY_API_TOKEN is missing and has not yet been reported, no
\* external call has been made: no language-model call, no client, no actor
\* call.
C2_NoCallBeforeCredentialReported ==
  (~env_token /\ ~(entry = "cli" /\ arg_token) /\ ~cred_reported)
    => (llm_calls = 0 /\ ~client /\ actor_calls = <<>>)

\* C3: every element of the normalized hashtag list (schema validator or CLI)
\* is non-empty, has no leading or trailing whitespace and does not start
\* with '#'; validator and CLI agree on a comma-separated string.
CleanTag(h) == h # <<>> /\ ~IsSpace(h[1]) /\ ~IsSpace(h[Len(h)]) /\ h[1] # "#"
C3_NormalizedTagsClean ==
  (entry \in {"wrapper", "cli"} /\ pc = "tool_token")
    => /\ \A i \in 1..Len(hashtags) : CleanTag(hashtags[i])
       /\ in_hashtags.t = "str" => normalize_hashtags(in_hashtags) = cli_hashtags(in_hashtags.s)

\* C4 (as claimed): every actor call has video, cover, subtitle and avatar
\* downloads disabled, profile sorting 'latest' and pinned posts included.
C4_AllDownloadsDisabled ==
  \A i \in 1..Len(actor_calls) :
    LET c == actor_calls[i]
    IN /\ ~c.shouldDownloadVideos
       /\ ~c.shouldDownloadCovers
       /\ ~c.shouldDownloadSubtitles
       /\ ~c.shouldDownloadAvatars
       /\ c.profileSorting = "latest"
       /\ ~c.excludePinnedPosts

\* C4 (amended): every actor call carries the same constant flags whatever
\* the hashtags and page size: video, cover and avatar downloads disabled,
\* subtitle download enabled, profile sorting 'latest', pinned posts
\* included; only hashtags and resultsPerPage vary.
FixedFlags ==
  [ hashtags |-> <<>>,
    resultsPerPage |-> 0,
    profileScrapeSections |-> <<"videos">>,
    profileSorting |-> "latest",
    excludePinnedPosts |-> FALSE,
    searchSection |-> "",
    maxProfilesPerQuery |-> 10,
    scrapeRelatedVideos |-> FALSE,
    shouldDownloadVideos |-> FALSE,
    shouldDownloadCovers |-> FALSE,
    shouldDownloadSubtitles |-> TRUE,
    shouldDownloadSlideshowImages |-> FALSE,
    shouldDownloadAvatars |-> FALSE,
    shouldDownloadMusicCovers |-> FALSE,
    proxyCountryCode |-> "None" ]
C4_ConstantFlags ==
  \A i \in 1..Len(actor_calls) :
    /\ [actor_calls[i] EXCEPT !.hashtags = <<>>, !.resultsPerPage = 0] = FixedFlags
    /\ actor_calls[i].hashtags = hashtags
    /\ actor_calls[i].resultsPerPage = results_per_page
C4_Witness ==
  /\ actor_calls # <<>>
  /\ actor_calls[1].resultsPerPage = RPP_MAX
  /\ Len(actor_calls[1].hashtags) = 2

C6_HashtagsAndResults ==
  (KickoffReturned /\ raw.t = "str" /\ ParsesWithKey(raw.text, "results")
     /\ ArtifactHasHashtags(1))
    => /\ outcome = "returned"
       /\ result.t = "dict"
       /\ {"hashtags", "results"} \subseteq Keys(result.kv)

\* C7: when the terminal output is unparsable and some artifact parses to an
\* object with 'hashtags', the returned object has 'hashtags' equal to that of
\* the first such artifact and has no 'error' key.
C7_FirstArtifactHashtags ==
  (KickoffReturned /\ RawUnparsable /\ \E i \in 1..Len(artifacts.vals) : ArtifactHasHashtags(i))
    => LET first == CHOOSE i \in 1..Len(artifacts.vals) :
                      ArtifactHasHashtags(i) /\ \A j \in 1..(i - 1) : ~ArtifactHasHashtags(j)
       IN /\ outcome = "returned"
          /\ result.t = "dict"
          /\ <<"hashtags", Get(json_loads(artifacts.vals[first].text).kv, "hashtags")>> \in result.kv
          /\ "error" \notin Keys(result.kv)

\* C8: when the terminal output is not valid JSON and no artifact parses to an
\* object with 'hashtags', the runner returns exactly
\* {"error": "Could not parse crew output"}; and it returns that object only
\* when nothing was recovered.
C8_ErrorObjectExactly ==
  /\ (KickoffReturned /\ RawUnparsable /\ ~\E i \in 1..Len(artifacts.vals) : ArtifactHasHashtags(i))
       => (outcome = "returned" /\ result = PyDict(ErrorObject))
  /\ (KickoffReturned /\ outcome = "returned" /\ result = PyDict(ErrorObject))
       => output = {}

\* C9: when the dataset of a completed run yields N items, tiktok_scrape_tool
\* has made exactly one actor call and returns an object whose only key is
\* 'data', holding exactly those items in the order yielded.
C9_DataIsDataset ==
  tool_outcome = "returned"
    => /\ Len(actor_calls) = 1
       /\ DOMAIN res = {"data"}
       /\ res.data = dataset
C9_Witness ==
  /\ tool_outcome = "returned"
  /\ Len(dataset) = MaxItems
  /\ dataset[1] # dataset[2]
C9_WitnessEmpty == tool_outcome = "returned" /\ dataset = <<>>

\* C10: once kickoff() has returned, run_search_query_agent returns a dict and
\* never raises, whatever the terminal value is.
C10_AlwaysReturnsDict ==
  KickoffReturned => (outcome = "returned" /\ result.t = "dict")
====
